---- MODULE Spec2Model ----
(***************************************************************************)
(* Loom (src/loom.py): the frame-specification parser filter_frames and    *)
(* the render scheduler LOOM_OT_render_image_sequence (execute, modal, the *)
(* render_pre / render_post / render_cancel handlers).                     *)
(*                                                                         *)
(* Numbers.  Frame values are Python floats rounded to 5 decimals          *)
(* (around(..., decimals=5)); the model keeps them as integers counted in  *)
(* units of 1/Scale, so 1.0 is Scale and -0.5 is -(Scale \div 2).          *)
(*                                                                         *)
(* Frame entries.  The queue self._frames holds ints in integer mode and   *)
(* (main, sub) tuples in sub-frame mode.  An int n is the tuple <<n>>, a   *)
(* sub-frame the tuple <<main, sub>> with sub counted in units of 1/Scale. *)
(*                                                                         *)
(* Paths.  A path string is the record [t, fo, fi, fr]: t names the        *)
(* template the string was built from, fo / fi tell at which frame the     *)
(* globals of its folder / file name were resolved (<<>>: not resolved),   *)
(* fr is the frame entry formatted into the name (<<>>: none).             *)
(***************************************************************************)
EXTENDS Integers, Sequences, FiniteSets, TLC

\* ------------------------------------------------------------------ bounds
MaxFrame == 3      \* scheduler inputs name the frames 1..MaxFrame
MaxInvoke == 2     \* renderer invocations issued for one queue position
MaxItems == 3      \* items of a parser input
MaxVal == 3        \* parser inputs name the whole frames 1..MaxVal
MaxRuns == 1       \* runs started after an earlier run of the same session

\* around(arange(...), decimals=5): five decimals
Scale == 100000

Abs(x) == IF x < 0 THEN -x ELSE x

Fx(n) == n * Scale

Half == Scale \div 2

RECURSIVE DescendingSeq(_)
\* the descending list of a finite set of numbers
DescendingSeq(S) ==
    IF S = {} THEN <<>>
    ELSE LET m == CHOOSE x \in S : \A y \in S : x >= y
         IN  <<m>> \o DescendingSeq(S \ {m})

RECURSIVE SortedSeq(_)
\* sorted(set(...)): the ascending list of a finite set of numbers
SortedSeq(S) ==
    IF S = {} THEN <<>>
    ELSE LET m == CHOOSE x \in S : \A y \in S : x <= y
         IN  <<m>> \o SortedSeq(S \ {m})

Range(s) == {s[i] : i \in 1..Len(s)}

\* ------------------------------------------------------------ filter_frames
\* One match of numeric_pattern (rx_filter.findall): excl is the leading
\* ^ or !, kind tells a number from a range, a and b are the written
\* numbers (b = a for a number), inc is <<>> or <<the written increment>>.
Single(v) == [excl |-> FALSE, kind |-> "single", a |-> v, b |-> v, inc |-> <<>>]

Rng(a, b) == [excl |-> FALSE, kind |-> "range", a |-> a, b |-> b, inc |-> <<>>]

RngInc(a, b, s) == [excl |-> FALSE, kind |-> "range", a |-> a, b |-> b, inc |-> <<s>>]

Excl(it) == [it EXCEPT !.excl = TRUE]

\* numpy.isclose(a, b): |a - b| <= atol + rtol * |b| with atol = 1e-8 and
\* rtol = 1e-5, both sides multiplied by Scale * Scale; the whole number
\* Abs(a - b) times Scale is at most X exactly when it is at most X \div Scale
isclose(a, b) == Abs(a - b) <= (100 + Abs(b)) \div Scale

\* len(arange(start, end, step)) for start < end and step > 0
arange_len(start, end, step) == ((end - start) + step - 1) \div step

\* arange(start, end, step) for start < end and step > 0, as a set
arange(start, end, step) ==
    {start + k * step : k \in 0..(arange_len(start, end, step) - 1)}

\* frame_range, plus end when isclose(step, end - frame_range[-1])
range_frames(start, end, step) ==
    LET last == start + (arange_len(start, end, step) - 1) * step
    IN  arange(start, end, step) \cup (IF isclose(step, end - last) THEN {end} ELSE {})

\* next((i for i, v in enumerate(input_filtered) if "^" in v or "!" in v), None):
\* the 0-based index of the first exclude-marked item; -1 stands for None
first_exclude_index(items) ==
    IF \E i \in 1..Len(items) : items[i].excl
    THEN (CHOOSE i \in 1..Len(items) :
              items[i].excl /\ \A j \in 1..(i - 1) : ~items[j].excl) - 1
    ELSE -1

\* "if first_exclude_item:" is Python truthiness: None and 0 are both false
first_exclude_truthy(idx) == idx # -1 /\ idx # 0

\* the prefixing of lines 105-109 applied in both modes
auto_prefix_any_mode(items, filter_individual) ==
    LET idx == first_exclude_index(items)
    IN  IF first_exclude_truthy(idx)
        THEN [i \in 1..Len(items) |->
                 IF i - 1 >= idx THEN Excl(items[i]) ELSE items[i]]
        ELSE items

\* lines 104-109: in global mode every item from the first exclude-marked one
\* on gets the marker
auto_prefix(items, filter_individual) ==
    LET idx == first_exclude_index(items)
    IN  IF ~filter_individual /\ first_exclude_truthy(idx)
        THEN [i \in 1..Len(items) |->
                 IF i - 1 >= idx THEN Excl(items[i]) ELSE items[i]]
        ELSE items

\* the accumulators of the item loop (lines 112-114); err: an exception left
\* the function
EmptyAcc == [fl |-> {}, el |-> {}, cl |-> {}, cf |-> FALSE, err |-> FALSE]

\* lines 135-150 with the marker of the item ignored
range_step_unmarked(acc, it, start, end, step, filter_individual) ==
    IF step <= 0
    THEN [acc EXCEPT !.err = TRUE]
    ELSE [acc EXCEPT !.fl = @ \cup range_frames(start, end, step)]

\* a range item whose ends differ (lines 135-150)
range_step(acc, it, start, end, step, filter_individual) ==
    IF step <= 0
    THEN \* arange raises for step 0; for a negative step it is empty and
         \* frame_range[-1] raises
         [acc EXCEPT !.err = TRUE]
    ELSE LET fr == range_frames(start, end, step)
         IN  IF it.excl
             THEN [acc EXCEPT !.el = @ \cup fr,
                              !.cf = @ \/ filter_individual]
             ELSE [acc EXCEPT !.fl = @ \cup fr,
                              !.cl = IF acc.cf THEN @ \cup fr ELSE @]

\* the loop body for one item (lines 115-156)
item_step(acc, it, increment, filter_individual) ==
    IF acc.err THEN acc
    ELSE IF it.kind = "single"
    THEN IF ~it.excl
         THEN [acc EXCEPT !.fl = @ \cup {it.a},
                          !.cl = IF acc.cf THEN @ \cup {it.a} ELSE @]
         ELSE [acc EXCEPT !.el = @ \cup {it.a},
                          !.cf = @ \/ filter_individual]
    ELSE LET start == IF it.a <= it.b THEN it.a ELSE it.b
             end   == IF it.a <= it.b THEN it.b ELSE it.a
             step  == IF it.inc = <<>> THEN increment ELSE it.inc[1]
         IN  IF start < end
             THEN range_step(acc, it, start, end, step, filter_individual)
             ELSE IF it.excl
                  THEN [acc EXCEPT !.el = @ \cup {start}]
                  ELSE [acc EXCEPT !.fl = @ \cup {start}]

RECURSIVE item_loop(_, _, _, _)
item_loop(acc, items, increment, filter_individual) ==
    IF items = <<>> THEN acc
    ELSE item_loop(item_step(acc, Head(items), increment, filter_individual),
                   Tail(items), increment, filter_individual)

\* filter_frames(frame_input, increment, filter_individual) on the matches of
\* frame_input.  status: "none" (return None), "raise" (an exception),
\* "ok"; frames: the sorted values; ints: every value is whole (the list of
\* ints is returned instead of the floats).
filter_frames(items, increment, filter_individual) ==
    IF items = <<>>
    THEN [status |-> "none", frames |-> <<>>, ints |-> TRUE]
    ELSE LET acc == item_loop(EmptyAcc, auto_prefix(items, filter_individual),
                              increment, filter_individual)
             ex  == IF filter_individual THEN acc.el \ acc.cl ELSE acc.el
             fs  == acc.fl \ ex
         IN  IF acc.err
             THEN [status |-> "raise", frames |-> <<>>, ints |-> TRUE]
             ELSE [status |-> "ok", frames |-> SortedSeq(fs),
                   ints |-> \A v \in fs : v % Scale = 0]

\* ------------------------------------------------------------- the text
\* A text is a sequence of symbols: an unsigned whole-number literal
\* (c = "num", v its value) or one of the characters - , x % ^ (v = 0).
Num(n) == [c |-> "num", v |-> n]

Ch(c) == [c |-> c, v |-> 0]

\* the character class at position k of a text; "eof" past its end
At(text, k) == IF k >= 1 /\ k <= Len(text) THEN text[k].c ELSE "eof"

\* [-+]? at position k: how many symbols the sign takes
SignLen(text, k) == IF At(text, k) = "-" THEN 1 ELSE 0

\* numeric_pattern (lines 68-84) tried at position i: the position of the
\* last symbol of the match, 0 when there is none.  The marker and the sign
\* are optional but nothing else can stand in their place, so a match
\* begins marker, sign, literal.  Then the alternatives in their order:
\* range & increment (no sign before the end frame), range (a sign before
\* the end frame allowed), a number.
match_end(text, i) ==
    LET m == IF At(text, i) = "^" THEN 1 ELSE 0
        p == i + m + SignLen(text, i + m)
    IN  IF At(text, p) # "num" THEN 0
        ELSE IF /\ At(text, p + 1) = "-"
                /\ At(text, p + 2) = "num"
                /\ At(text, p + 3) \in {"x", "%"}
                /\ At(text, p + 4 + SignLen(text, p + 4)) = "num"
             THEN p + 4 + SignLen(text, p + 4)
        ELSE IF /\ At(text, p + 1) = "-"
                /\ At(text, p + 2 + SignLen(text, p + 2)) = "num"
             THEN p + 2 + SignLen(text, p + 2)
        ELSE p

RECURSIVE findall_from(_, _)
\* rx_filter.findall(frame_input) (line 100): the non-overlapping matches,
\* left to right, each a piece of the text
findall_from(text, i) ==
    IF i > Len(text) THEN <<>>
    ELSE LET e == match_end(text, i)
         IN  IF e = 0 THEN findall_from(text, i + 1)
             ELSE <<SubSeq(text, i, e)>> \o findall_from(text, e + 1)

findall(text) == findall_from(text, 1)

\* float_filter of the signed literal at position k of a match
signed_at(tok, k) ==
    IF At(tok, k) = "-" THEN -Fx(tok[k + 1].v) ELSE Fx(tok[k].v)

\* what the loop body reads in one match (lines 116-133): float_filter
\* takes a bare number, rx_exclude a marked number, rx_group a range with
\* its groups 1 (start), 3 (end) and 6 (increment)
match_item(tok) ==
    LET m  == IF At(tok, 1) = "^" THEN 1 ELSE 0
        p  == 1 + m + SignLen(tok, 1 + m)
        q  == p + 2 + SignLen(tok, p + 2)
        r  == q + 2 + SignLen(tok, q + 2)
        it == IF p = Len(tok) THEN Single(signed_at(tok, 1 + m))
              ELSE IF q = Len(tok)
                   THEN Rng(signed_at(tok, 1 + m), signed_at(tok, p + 2))
                   ELSE RngInc(signed_at(tok, 1 + m), signed_at(tok, p + 2),
                               signed_at(tok, q + 2))
    IN  IF m = 1 THEN Excl(it) ELSE it

\* input_filtered as the item loop reads it
matches(text) == LET f == findall(text) IN [i \in 1..Len(f) |-> match_item(f[i])]

\* the digits of n without its sign
str_int_unsigned(n) == <<Num(Abs(n))>>

\* str(n) of an int
str_int(n) == IF n < 0 THEN <<Ch("-"), Num(-n)>> ELSE <<Num(n)>>

\* ---------------------------------------- rangify_frames, missing_frames
\* groupby(frames, lambda x, c=count(): next(c) - x): the key of the i-th
\* element is (i - 1) - frames[i]; a group is a maximal run of neighbours
\* with equal keys.  group_end is the index of the last element of the
\* group that starts at i.
\* the text of a group with both ends always printed
group_text_both_ends(xs, i, j) ==
    str_int(xs[i]) \o <<Ch("-")>> \o str_int(xs[j])

\* every whole number from frames[0] to frames[-1]
missing_frames_whole_span(xs) == SortedSeq(xs[1]..xs[Len(xs)])

RECURSIVE group_end(_, _)
group_end(xs, i) ==
    IF i < Len(xs) /\ (i - xs[i + 1]) = ((i - 1) - xs[i])
    THEN group_end(xs, i + 1)
    ELSE i

\* "-".join(map(str, (g[0], g[-1])[:len(g)])) for the group xs[i..j]
group_text(xs, i, j) ==
    IF i = j THEN str_int(xs[i])
    ELSE str_int(xs[i]) \o <<Ch("-")>> \o str_int(xs[j])

RECURSIVE rangify_from(_, _)
rangify_from(xs, i) ==
    IF i > Len(xs) THEN <<>>
    ELSE LET j == group_end(xs, i)
         IN  (IF i > 1 THEN <<Ch(",")>> ELSE <<>>)
                 \o group_text(xs, i, j) \o rangify_from(xs, j + 1)

\* rangify_frames(frames) (lines 1020-1023)
rangify_frames(xs) == rangify_from(xs, 1)

\* missing_frames(frames) (lines 3210-3211):
\* sorted(set(range(frames[0], frames[-1] + 1)).difference(frames))
missing_frames(xs) ==
    SortedSeq({n \in xs[1]..xs[Len(xs)] : n \notin Range(xs)})


\* ------------------------------------------------------------- the host
\* the scene's compositor file-output nodes (out_nodes): n1 writes single
\* files through one file slot, n2 is a multilayer node ("LAYER" in its
\* format) whose slots are layers
Nodes == {"n1", "n2"}

is_layer(n) == n = "n2"

P(t, fo, fi, fr) == [t |-> t, fo |-> fo, fi |-> fi, fr |-> fr]

\* None
NoPath == P("none", <<>>, <<>>, <<>>)

\* the context replace_globals evaluates its expressions in: the run's start,
\* or the frame the scene is set to
StartCtx == << <<>> >>

FrameCtx(e) == <<e>>

\* replace_globals on a part of a template that holds a global key: the key
\* is replaced by its value in ctx; a part resolved before holds no key any
\* more and stays as it is
replace_globals(part, ctx) == IF part = <<>> THEN ctx ELSE part

\* scn.frame_step, the increment execute passes to filter_frames
scene_frame_step == Fx(1)

VARIABLES
    \* host application
    use_overwrite,   \* scene.render.use_overwrite
    files,           \* frame entries whose main target file is on disk
    folder_glob,     \* the output folder holds a global key
    folder_ok,       \* the output folder exists or can be created
    scene_nodes,     \* out_nodes(scene): the file-output nodes of the scene
    runs,            \* how many runs the user has started after an earlier one
    filepath,        \* scene.render.filepath
    base_path,       \* node -> base_path
    slot_path,       \* node -> file_slots[0].path
    handlers,        \* registered: "timer", "render_pre", "render_post", "render_cancel"
    job,             \* the renderer's job: "none", "requested", "running"
    \* the operator
    phase,           \* "idle", "silent", "modal", "finished", "cancelled", "raised"
    render_silent,   \* self.render_silent
    frames,          \* self._frames
    rendered,        \* self._rendered_frames
    skipped,         \* self._skipped_frames
    stop,            \* self._stop
    rendering,       \* self._rendering (None before a run is read as FALSE)
    subframe_flag,   \* self._subframe_flag
    output_path,     \* self._output_path
    folder,          \* self._folder: where its globals were resolved
    output_nodes,    \* self._output_nodes: node -> what execute recorded
    idx,             \* position of execute's "for frame_number in self._frames"
    \* history
    frames0,         \* the queue as execute built it
    files0,          \* the files on disk when the run started
    orig,            \* the paths immediately before the run
    log,             \* what happened, in order
    \* the parser on its own
    p_items, p_isolate, p_out,
    p_text,          \* frame_input, the text the items are matched in
    p_step,          \* increment
    \* rangify_frames and missing_frames on their own
    u_in,            \* the list of frame numbers passed in
    u_out,           \* what missing_frames returned
    \* the file names of a sub-frame run on their own
    f_in,            \* the floats filter_frames returned
    f_out,           \* self._dec and the numbers in the file names
    \* loom.guess_frames on its own
    s_range,         \* <<scn.frame_start, scn.frame_end>>
    s_disk,          \* the frame numbers of the image sequence on disk
    g_out            \* how the operator ended

host == <<use_overwrite, folder_glob, folder_ok, scene_nodes, runs>>

paths == <<filepath, base_path, slot_path>>

lists == <<frames, rendered, skipped>>

setup == <<render_silent, subframe_flag, output_path, folder, output_nodes, frames0, files0, orig>>

tools == <<f_in, f_out, s_range, s_disk, g_out>>

parser == <<p_items, p_isolate, p_out, p_text, p_step, u_in, u_out, tools>>

vars == <<host, files, paths, handlers, job, phase, lists, stop, rendering, setup, idx, log, parser>>

MainTemplate == P("main", <<>>, <<>>, <<>>)

BaseTemplate(n) == P(n, <<>>, <<>>, <<>>)

SlotTemplate(n) == P(n \o ".slot", <<>>, <<>>, <<>>)

IntEntry(n) == <<n>>

\* main target files that may be on disk before a run
DiskCandidates == {IntEntry(n) : n \in 1..MaxFrame} \cup {<<0, Half>>}

Handlers == {"timer", "render_pre", "render_post", "render_cancel"}

Ev(ev, e) == [ev |-> ev, f |-> e]

HostInit ==
    /\ use_overwrite \in BOOLEAN
    /\ files \in SUBSET DiskCandidates
    /\ folder_glob \in BOOLEAN
    /\ folder_ok \in BOOLEAN
    /\ scene_nodes = Nodes
    /\ runs = 0
    /\ filepath = MainTemplate
    /\ base_path = [n \in Nodes |-> BaseTemplate(n)]
    /\ slot_path = [n \in Nodes |-> SlotTemplate(n)]
    /\ handlers = {}
    /\ job = "none"

OperatorInit ==
    /\ phase = "idle"
    /\ render_silent = FALSE
    /\ frames = <<>>
    /\ rendered = <<>>
    /\ skipped = <<>>
    /\ stop = FALSE
    /\ rendering = FALSE
    /\ subframe_flag = FALSE
    /\ output_path = NoPath
    /\ folder = <<>>
    /\ output_nodes = <<>>
    /\ idx = 1
    /\ frames0 = <<>>
    /\ files0 = {}
    /\ orig = [filepath |-> filepath, base_path |-> base_path, slot_path |-> slot_path]
    /\ log = <<>>

\* neither rangify_frames nor missing_frames was called
UtilsIdle == [rangified |-> FALSE, missing |-> FALSE, frames |-> <<>>]

\* format_subframe and loom.guess_frames were not called
ToolsIdle ==
    /\ f_in = <<>>
    /\ f_out = [status |-> "idle", dec |-> 0, names |-> <<>>]
    /\ s_range = <<1, 1>>
    /\ s_disk = {}
    /\ g_out = "idle"

ParserIdle ==
    /\ p_items = <<>>
    /\ p_isolate = FALSE
    /\ p_out = [status |-> "idle", frames |-> <<>>, ints |-> TRUE]
    /\ p_text = <<>>
    /\ p_step = scene_frame_step
    /\ u_in = <<>>
    /\ u_out = UtilsIdle
    /\ ToolsIdle

Init == HostInit /\ OperatorInit /\ ParserIdle


\* --------------------------------------------------------- the operator
\* subframes (lines 3715-3720): repr(frame).split('.') gives the text before
\* and after the point; int() of the first keeps the sign only when the
\* whole part is not 0, float('.' + second) is never negative
subframes(vals) ==
    [i \in 1..Len(vals) |->
        LET v == vals[i]
            whole == Abs(v) \div Scale
        IN  <<IF v < 0 THEN -whole ELSE whole, Abs(v) % Scale>>]

\* the list of ints filter_frames returns when every value is whole
int_frames(vals) == [i \in 1..Len(vals) |-> IntEntry(vals[i] \div Scale)]

\* the list of floats filter_frames returns otherwise, before subframes
\* splits it: the value v is kept as <<v, Scale>>, v over Scale
float_frames(vals) == [i \in 1..Len(vals) |-> <<vals[i], Scale>>]

\* what execute records of one output node (lines 3881-3892): "Base Path",
\* from which "Folder" and "Filename" are split, and "File Slots" unless the
\* node is a multilayer one
node_record(n) ==
    [base |-> base_path[n], has_slots |-> ~is_layer(n),
     slots |-> IF is_layer(n) THEN NoPath ELSE slot_path[n]]

\* a test that finds no file
isfile_never(e) == FALSE

\* os.path.isfile(rndr.filepath) once frame_repath has set the path of e
isfile(e) == e \in files

\* reset_output_paths without its loop over the recorded nodes
reset_output_paths_main_only ==
    /\ filepath' = output_path
    /\ UNCHANGED <<base_path, slot_path>>

\* reset_output_paths (lines 3762-3768)
reset_output_paths ==
    /\ filepath' = output_path
    /\ base_path' = [n \in Nodes |->
           IF n \in DOMAIN output_nodes THEN output_nodes[n].base ELSE base_path[n]]
    /\ slot_path' = [n \in Nodes |->
           IF n \in DOMAIN output_nodes /\ output_nodes[n].has_slots
           THEN output_nodes[n].slots ELSE slot_path[n]]

\* frame_repath (lines 3770-3798): scene.frame_set, then the main path and
\* the paths of every recorded node
frame_repath(e) ==
    /\ filepath' = P("main", folder, FrameCtx(e), FrameCtx(e))
    /\ base_path' = [n \in Nodes |->
           IF n \notin DOMAIN output_nodes THEN base_path[n]
           ELSE IF output_nodes[n].has_slots
           THEN \* k.base_path = replace_globals(k.base_path)
                [base_path[n] EXCEPT !.fo = replace_globals(@, FrameCtx(e))]
           ELSE \* os.path.join(replace_globals(v["Folder"]), of)
                P(output_nodes[n].base.t,
                  replace_globals(output_nodes[n].base.fo, FrameCtx(e)),
                  replace_globals(output_nodes[n].base.fi, FrameCtx(e)),
                  IF subframe_flag THEN FrameCtx(e) ELSE <<>>)]
    /\ slot_path' = [n \in Nodes |->
           IF n \in DOMAIN output_nodes /\ output_nodes[n].has_slots
           THEN P(output_nodes[n].slots.t, <<>>,
                  replace_globals(output_nodes[n].slots.fi, FrameCtx(e)),
                  IF subframe_flag THEN FrameCtx(e) ELSE <<>>)
           ELSE slot_path[n]]

\* post_render leaving self._rendering as it is
post_render_still_rendering ==
    /\ frames' = Tail(frames)
    /\ UNCHANGED rendering

\* post_render (lines 3707-3710)
post_render ==
    /\ frames' = Tail(frames)
    /\ rendering' = FALSE

\* self._rendered_frames after an append without the "not in" test
rendered_append_always(e) == Append(rendered, e)

\* self._rendered_frames after "if frame not in ...: append(frame)"
rendered_append(e) ==
    IF e \in Range(rendered) THEN rendered ELSE Append(rendered, e)

RECURSIVE TrailingInvokes(_)
\* renderer invocations issued since the queue last changed
TrailingInvokes(l) ==
    IF l = <<>> \/ l[Len(l)].ev # "invoke" THEN 0
    ELSE 1 + TrailingInvokes(SubSeq(l, 1, Len(l) - 1))

\* start_render, the branch that skips (lines 3802-3804)
start_render_skip(e) ==
    /\ ~use_overwrite /\ isfile(e)
    /\ skipped' = Append(skipped, e)
    /\ post_render
    /\ log' = Append(log, Ev("skip", e))
    /\ UNCHANGED <<rendered, files, job, phase>>

\* start_render, the branch that renders (lines 3805-3811): silent, the call
\* returns when the image is written; otherwise it returns at once and the
\* renderer runs its job, one at a time
start_render_render(e, silent) ==
    /\ ~(~use_overwrite /\ isfile(e))
    /\ rendered' = rendered_append(e)
    /\ files' = IF silent THEN files \cup {e} ELSE files
    /\ job' = IF ~silent /\ job = "none" THEN "requested" ELSE job
    /\ log' = Append(log, Ev("invoke", e))
    /\ UNCHANGED <<skipped, frames, rendering, phase>>

\* start_render when bpy.ops.render.render raises: the exception leaves
\* start_render and its caller
start_render_raise(e) ==
    /\ ~(~use_overwrite /\ isfile(e))
    /\ job = "none"
    /\ phase' = "raised"
    /\ log' = Append(log, Ev("raise", e))
    /\ UNCHANGED <<rendered, skipped, frames, rendering, files, job>>

\* start_render (lines 3800-3811)
start_render(e, silent) ==
    \/ start_render_skip(e)
    \/ start_render_render(e, silent)
    \/ start_render_raise(e)


RECURSIVE ExcludedSingles(_)
ExcludedSingles(S) ==
    IF S = {} THEN <<>>
    ELSE LET m == CHOOSE x \in S : \A y \in S : x <= y
         IN  <<Excl(Single(Fx(m)))>> \o ExcludedSingles(S \ {m})

\* the frame inputs of the runs: "1-MaxFrame" followed by any exclusions
\* (every subset of 1..MaxFrame is the result of one of them), two sub-frame
\* inputs, and an input no item matches
SchedInputs ==
    {<<Rng(Fx(1), Fx(MaxFrame))>> \o ExcludedSingles(X) : X \in SUBSET (1..MaxFrame)}
      \cup {<<Single(-Half), Single(Half)>>, <<Single(Half), Single(Fx(1) + Half)>>, <<>>}

\* lines 3854-3859 returning only after the handlers and the timer of lines
\* 3928-3932 are registered
execute_no_frames_registering(r) ==
    /\ r.status # "raise"
    /\ r.frames = <<>>
    /\ frames' = <<>>
    /\ phase' = "cancelled"
    /\ handlers' = Handlers
    /\ UNCHANGED <<host, files, paths, job, rendered, skipped, stop,
                   rendering, setup, idx, log, parser>>

\* execute, lines 3854-3859: no frames
execute_no_frames(r) ==
    /\ r.status # "raise"
    /\ r.frames = <<>>
    /\ frames' = <<>>
    /\ phase' = "cancelled"
    /\ UNCHANGED <<host, files, paths, handlers, job, rendered, skipped, stop,
                   rendering, setup, idx, log, parser>>

\* execute when filter_frames raises
execute_parse_raise(r) ==
    /\ r.status = "raise"
    /\ phase' = "raised"
    /\ UNCHANGED <<host, files, paths, handlers, job, lists, stop, rendering,
                   setup, idx, log, parser>>

\* the queue after lines 3898-3902
queue_of(r) == IF r.ints THEN int_frames(r.frames) ELSE subframes(r.frames)

\* execute, lines 3872-3878: the folder holds a global key and is no
\* directory after loom.create_directory (which may itself raise)
execute_no_folder(r, silent) ==
    /\ r.status = "ok" /\ r.frames # <<>>
    /\ folder_glob /\ ~folder_ok
    /\ frames' = IF r.ints THEN int_frames(r.frames) ELSE float_frames(r.frames)
    /\ render_silent' = silent
    /\ output_path' = filepath
    /\ folder' = StartCtx
    /\ phase' \in {"cancelled", "raised"}
    /\ UNCHANGED <<host, files, paths, handlers, job, rendered, skipped, stop,
                   rendering, subframe_flag, output_nodes, frames0, files0, orig,
                   idx, log, parser>>

\* execute, lines 3861-3934, when the run starts
execute_start(r, silent) ==
    /\ r.status = "ok" /\ r.frames # <<>>
    /\ ~(folder_glob /\ ~folder_ok)
    /\ render_silent' = silent
    /\ output_path' = filepath
    /\ folder' = IF folder_glob THEN StartCtx ELSE <<>>
    /\ output_nodes' = [n \in (DOMAIN output_nodes) \cup scene_nodes |->
                           IF n \in scene_nodes THEN node_record(n) ELSE output_nodes[n]]
    /\ rendered' = <<>>
    /\ skipped' = <<>>
    /\ frames' = queue_of(r)
    /\ subframe_flag' = ~r.ints
    /\ frames0' = queue_of(r)
    /\ files0' = files
    /\ orig' = [filepath |-> filepath, base_path |-> base_path, slot_path |-> slot_path]
    /\ idx' = 1
    /\ IF silent
       THEN /\ phase' = "silent"
            /\ UNCHANGED <<stop, rendering, handlers>>
       ELSE /\ phase' = "modal"
            /\ stop' = FALSE
            /\ rendering' = FALSE
            /\ handlers' = Handlers
    /\ UNCHANGED <<host, files, paths, job, log, parser>>

\* execute (lines 3849-3934) up to the silent loop
Execute ==
    /\ phase = "idle"
    /\ \E input \in SchedInputs, isolate \in BOOLEAN, silent \in BOOLEAN :
          LET r == filter_frames(input, scene_frame_step, isolate)
          IN  \/ execute_parse_raise(r)
              \/ execute_no_frames(r)
              \/ execute_no_folder(r, silent)
              \/ execute_start(r, silent)

\* execute, one round of "for frame_number in self._frames" (lines 3916-3918):
\* the iterator yields self._frames[idx] while idx is inside the list
SilentStep ==
    /\ phase = "silent"
    /\ idx <= Len(frames)
    /\ frame_repath(frames[idx])
    /\ start_render(frames[idx], TRUE)
    /\ idx' = idx + 1
    /\ UNCHANGED <<host, handlers, stop, setup, parser>>

\* execute, lines 3920-3922: the loop is over
SilentEnd ==
    /\ phase = "silent"
    /\ idx > Len(frames)
    /\ reset_output_paths
    /\ phase' = "finished"
    /\ UNCHANGED <<host, files, handlers, job, lists, stop, rendering, setup,
                   idx, log, parser>>

\* modal, lines 3941-3950: the queue is empty or the run was stopped
modal_finish ==
    /\ frames = <<>> \/ stop
    /\ handlers' = {}
    /\ reset_output_paths
    /\ phase' = "finished"
    /\ UNCHANGED <<host, files, job, lists, stop, rendering, setup, idx, log, parser>>

\* modal, lines 3952-3957: nothing is rendering, the head of the queue is next
modal_render ==
    /\ ~(frames = <<>> \/ stop)
    /\ ~rendering
    /\ TrailingInvokes(log) < MaxInvoke
    /\ frame_repath(frames[1])
    /\ start_render(frames[1], FALSE)
    /\ UNCHANGED <<host, handlers, stop, setup, idx, parser>>

\* modal, line 3959: a frame is rendering
modal_pass ==
    /\ ~(frames = <<>> \/ stop)
    /\ rendering
    /\ UNCHANGED vars

\* modal on a TIMER event (lines 3936-3959)
Tick ==
    /\ phase = "modal"
    /\ "timer" \in handlers
    /\ (modal_finish \/ modal_render \/ modal_pass)

\* the renderer starts its job: render_pre runs pre_render (lines 3698-3700)
PreRender ==
    /\ job = "requested"
    /\ "render_pre" \in handlers
    /\ job' = "running"
    /\ rendering' = TRUE
    /\ log' = Append(log, Ev("pre", frames[1]))
    /\ UNCHANGED <<host, files, paths, handlers, phase, lists, stop, setup, idx, parser>>

\* the renderer has written the image: render_post runs post_render
PostRender ==
    /\ job = "running"
    /\ "render_post" \in handlers
    /\ job' = "none"
    /\ files' = files \cup {frames[1]}
    /\ post_render
    /\ log' = Append(log, Ev("post", frames[1]))
    /\ UNCHANGED <<host, paths, handlers, phase, rendered, skipped, stop, setup, idx, parser>>

\* the renderer gives its job up: render_cancel runs cancel_render (lines 3702-3705)
CancelRender ==
    /\ job \in {"requested", "running"}
    /\ "render_cancel" \in handlers
    /\ job' = "none"
    /\ stop' = TRUE
    /\ reset_output_paths
    /\ rendered' = SubSeq(rendered, 1, Len(rendered) - 1)
    /\ log' = Append(log, Ev("cancel", frames[1]))
    /\ UNCHANGED <<host, files, handlers, phase, frames, skipped, rendering, setup, idx, parser>>

Next ==
    \/ Execute
    \/ SilentStep
    \/ SilentEnd
    \/ Tick
    \/ PreRender
    \/ PostRender
    \/ CancelRender

Spec == Init /\ [][Next]_vars

\* The same with the scheduling the host gives an interactive run: the
\* window manager keeps delivering TIMER events to modal (line 3929), and a
\* render job that was requested starts and ends, running the render_pre
\* and render_post handlers, unless it is cancelled.
SpecLive ==
    Spec /\ WF_vars(Tick) /\ WF_vars(PreRender) /\ WF_vars(PostRender)


\* ------------------------------------------- several runs in one session
\* a base path the user typed into a node
EditedPath(n) == P("edited", <<>>, <<>>, <<>>)

\* The session starts in a scene holding any of the file-output nodes; the
\* host's other settings are fixed (overwrite enabled, no global key in the
\* output folder).
RunsInit ==
    /\ use_overwrite = TRUE
    /\ files = {}
    /\ folder_glob = FALSE
    /\ folder_ok = TRUE
    /\ scene_nodes \in SUBSET Nodes
    /\ runs = 0
    /\ filepath = MainTemplate
    /\ base_path = [n \in Nodes |-> BaseTemplate(n)]
    /\ slot_path = [n \in Nodes |-> SlotTemplate(n)]
    /\ handlers = {}
    /\ job = "none"
    /\ OperatorInit
    /\ ParserIdle

\* The operator has returned and the user calls it again: in between the
\* scene may have changed (out_nodes, lines 3758-3760, reads the scene of the
\* call) and the user may have typed a new base path into a node. The new
\* call is a new instance whose attributes are the class attributes of lines
\* 3688-3692; _output_nodes is the dictionary of the class itself, which
\* execute fills in place (line 3883) and nothing empties.
BetweenRuns ==
    /\ phase \in {"finished", "cancelled"}
    /\ runs < MaxRuns
    /\ runs' = runs + 1
    /\ scene_nodes' \in SUBSET Nodes
    /\ \E n \in Nodes :
          base_path' \in {base_path, [base_path EXCEPT ![n] = EditedPath(n)]}
    /\ phase' = "idle"
    /\ render_silent' = FALSE
    /\ frames' = <<>>
    /\ rendered' = <<>>
    /\ skipped' = <<>>
    /\ stop' = FALSE
    /\ rendering' = FALSE
    /\ subframe_flag' = FALSE
    /\ output_path' = NoPath
    /\ folder' = <<>>
    /\ idx' = 1
    /\ frames0' = <<>>
    /\ files0' = {}
    /\ orig' = [filepath |-> filepath, base_path |-> base_path', slot_path |-> slot_path]
    /\ log' = <<>>
    /\ UNCHANGED <<use_overwrite, folder_glob, folder_ok, files, filepath, slot_path,
                   handlers, job, output_nodes, parser>>

RunsNext ==
    \/ Execute
    \/ SilentStep
    \/ SilentEnd
    \/ Tick
    \/ PreRender
    \/ PostRender
    \/ CancelRender
    \/ BetweenRuns

SpecRuns == RunsInit /\ [][RunsNext]_vars


\* ------------------------------------------------------------ the claims
\* (settled under Spec unless said otherwise)
HasEv(kind) == \E i \in 1..Len(log) : log[i].ev = kind

IsPost(x) == x.ev = "post"

IsSkip(x) == x.ev = "skip"

IsInvoke(x) == x.ev = "invoke"

FramesOf(l) == [i \in 1..Len(l) |-> l[i].f]

NoDup(s) == \A i, j \in 1..Len(s) : s[i] = s[j] => i = j

PathsRestored ==
    /\ filepath = orig.filepath
    /\ \A n \in Nodes : base_path[n] = orig.base_path[n] /\ slot_path[n] = orig.slot_path[n]

RECURSIVE ExpectedLists(_, _)
\* the lists a scheduler that processes every frame of the queue q in order
\* ends with, overwrite disabled: a frame whose target is on disk when its
\* turn comes is skipped, any other is rendered (and its image written)
ExpectedLists(q, disk) ==
    IF q = <<>> THEN [r |-> <<>>, s |-> <<>>]
    ELSE IF Head(q) \in disk
    THEN LET rest == ExpectedLists(Tail(q), disk)
         IN  [r |-> rest.r, s |-> <<Head(q)>> \o rest.s]
    ELSE LET rest == ExpectedLists(Tail(q), disk \cup {Head(q)})
         IN  [r |-> <<Head(q)>> \o rest.r, s |-> rest.s]

C1_WitnessSilent ==
    /\ phase = "finished"
    /\ render_silent
    /\ HasEv("invoke")

\* C2 (as claimed): in an interactive run that saw the renderer cancel frame
\* k, the rendered list at the end is exactly the frames whose render
\* completed before (k not among them), the skipped list is exactly the frames
\* skipped before, and nothing is rendered or skipped after the cancel.
C2_CancelKeepsCompleted ==
    (phase = "finished" /\ ~render_silent /\ HasEv("cancel")) =>
        LET c == CHOOSE i \in 1..Len(log) : log[i].ev = "cancel"
            before == SubSeq(log, 1, c - 1)
        IN  /\ rendered = FramesOf(SelectSeq(before, IsPost))
            /\ skipped = FramesOf(SelectSeq(before, IsSkip))
            /\ \A i \in (c + 1)..Len(log) : log[i].ev \notin {"invoke", "skip"}

\* C2 on queues without a repeated entry: the same statement
C2_CancelKeepsCompletedDistinct ==
    NoDup(frames0) => C2_CancelKeepsCompleted

C2_Witness ==
    /\ phase = "finished"
    /\ HasEv("cancel")
    /\ HasEv("post")
    /\ HasEv("skip")

C4_SilentSameLists ==
    (phase = "finished" /\ render_silent /\ ~use_overwrite) =>
        /\ skipped = ExpectedLists(frames0, files0).s
        /\ rendered = ExpectedLists(frames0, files0).r
        /\ Range(frames0) = Range(rendered) \cup Range(skipped)

\* C5 (as claimed): in an interactive run the renderer is invoked once for a
\* frame that is not skipped, and never while an earlier invocation has
\* neither completed nor been cancelled.
C5_OneInvocationAtATime ==
    ~render_silent =>
        /\ \A i, j \in 1..Len(log) :
               (i < j /\ log[i].ev = "invoke" /\ log[j].ev = "invoke") =>
                   \E k \in (i + 1)..(j - 1) : log[k].ev \in {"post", "cancel"}
        /\ (phase = "finished" /\ ~HasEv("cancel")) =>
               Len(SelectSeq(log, IsInvoke)) = Len(frames0) - Len(skipped)

\* what is still to be processed: the queue, and in a silent run the part of
\* it the loop has not reached
pending == IF phase = "silent" THEN SubSeq(frames, idx, Len(frames)) ELSE frames

Processes == Len(log') = Len(log) + 1 /\ log'[Len(log')].ev \in {"invoke", "skip", "raise"}

\* C6 (as claimed): each frame skip-evaluated or handed to the renderer is
\* the head of the pending queue, and the queue changes only by losing its head.
C6_HeadOnly ==
    [][/\ Processes => (pending # <<>> /\ log'[Len(log')].f = Head(pending))
       /\ (phase \in {"silent", "modal"} /\ pending' # pending) =>
              (pending # <<>> /\ pending' = Tail(pending))]_vars

\* C7 (as claimed): the rendered and the skipped list share no frame and
\* neither holds a frame twice.
C7_ListsDisjoint ==
    /\ Range(rendered) \cap Range(skipped) = {}
    /\ NoDup(rendered)
    /\ NoDup(skipped)

\* C8 (as claimed): a run the renderer failed in still ends with the paths
\* reset to what they were before the run.
C8_RestoredAfterFailure == (phase = "raised" /\ HasEv("raise")) => PathsRestored

\* C9 (as claimed): when the output folder cannot be created the renderer is
\* never invoked and the paths stay what they were, global key or not.
C9_NoFolderNoRender ==
    ~folder_ok =>
        /\ ~HasEv("invoke")
        /\ phase \in {"cancelled", "raised", "finished"} => PathsRestored

\* C9 for a folder that holds a global key
C9_NoFolderNoRenderGlobal == folder_glob => C9_NoFolderNoRender


\* ------------------------------------------------- the parser on its own
\* the items of the parser inputs: whole frames 1..MaxVal, ascending ranges
\* between them, each with and without the exclude marker
PlainItems ==
    {Single(Fx(v)) : v \in 1..MaxVal}
      \cup {Rng(Fx(ab[1]), Fx(ab[2])) :
               ab \in {xy \in (1..MaxVal) \X (1..MaxVal) : xy[1] < xy[2]}}

ParserItems == PlainItems \cup {Excl(it) : it \in PlainItems}

ParserInputs == UNION {[1..n -> ParserItems] : n \in 0..MaxItems}

HostIdle ==
    /\ use_overwrite = FALSE
    /\ files = {}
    /\ folder_glob = FALSE
    /\ folder_ok = TRUE
    /\ scene_nodes = Nodes
    /\ runs = 0
    /\ filepath = MainTemplate
    /\ base_path = [n \in Nodes |-> BaseTemplate(n)]
    /\ slot_path = [n \in Nodes |-> SlotTemplate(n)]
    /\ handlers = {}
    /\ job = "none"

ParseInit ==
    /\ HostIdle
    /\ OperatorInit
    /\ p_items \in ParserInputs
    /\ p_isolate \in BOOLEAN
    /\ p_out = [status |-> "idle", frames |-> <<>>, ints |-> TRUE]
    /\ p_text = <<>>
    /\ p_step = scene_frame_step
    /\ u_in = <<>>
    /\ u_out = UtilsIdle
    /\ ToolsIdle

\* filter_frames(frame_input, scn.frame_step, isolate_numbers), line 3855
Parse ==
    /\ p_out.status = "idle"
    /\ p_out' = filter_frames(p_items, scene_frame_step, p_isolate)
    /\ UNCHANGED <<host, files, paths, handlers, job, phase, lists, stop,
                   rendering, setup, idx, log, p_items, p_isolate, p_text,
                   p_step, u_in, u_out, tools>>

ParseNext == Parse

SpecParse == ParseInit /\ [][ParseNext]_vars

\* the values an item names, the increment defaulting to the scene's step
ItemValues(it) ==
    LET start == IF it.a <= it.b THEN it.a ELSE it.b
        end   == IF it.a <= it.b THEN it.b ELSE it.a
        step  == IF it.inc = <<>> THEN scene_frame_step ELSE it.inc[1]
    IN  IF start = end THEN {start} ELSE range_frames(start, end, step)

\* C10 (as claimed): in global mode no value of an item without a marker that
\* follows an exclude-marked item, at whatever position that one stands, is
\* in the result.
C10_GlobalExcludesRest ==
    (p_out.status = "ok" /\ ~p_isolate) =>
        \A i, j \in 1..Len(p_items) :
            (j < i /\ p_items[j].excl /\ ~p_items[i].excl) =>
                ItemValues(p_items[i]) \cap Range(p_out.frames) = {}

\* C10 for a first marker that is not on the first item
C10_GlobalExcludesRestLater ==
    (p_items # <<>> /\ ~p_items[1].excl) => C10_GlobalExcludesRest

\* C10, the example: "^1,2,3" in global mode gives no frame
C10_Example ==
    (p_out.status = "ok" /\ ~p_isolate
        /\ p_items = <<Excl(Single(Fx(1))), Single(Fx(2)), Single(Fx(3))>>) =>
            p_out.frames = <<>>


\* C17: when the frame specification gives no frames (no item matched, or
\* every value was excluded) the run ends cancelled with the renderer never
\* invoked, no timer or render handler registered and the main path and the
\* node paths as they were.
C17_NoFramesNothingChanged ==
    (phase = "cancelled" /\ frames = <<>>) =>
        /\ log = <<>>
        /\ job = "none"
        /\ handlers = {}
        /\ filepath = MainTemplate
        /\ base_path = [n \in Nodes |-> BaseTemplate(n)]
        /\ slot_path = [n \in Nodes |-> SlotTemplate(n)]

\* a run that ended at "No frames to render"
C17_Witness == phase = "cancelled" /\ frames = <<>> /\ output_path = NoPath

\* a step in which modal called start_render: the log grew by what
\* start_render did
Evaluates ==
    /\ phase = "modal"
    /\ Len(log') = Len(log) + 1
    /\ log'[Len(log')].ev \in {"skip", "invoke", "raise"}

\* C23: at a tick that evaluates the head of the queue, if the frame's main
\* target file exists and overwrite is disabled the frame is appended to the
\* skipped list and leaves the queue, and the renderer is not invoked; in
\* any other case nothing is added to the skipped list.  With overwrite
\* enabled the skipped list stays empty.
C23_SkipPolicy ==
    /\ [](use_overwrite => skipped = <<>>)
    /\ [][Evaluates =>
             IF ~use_overwrite /\ frames[1] \in files
             THEN /\ log'[Len(log')] = Ev("skip", frames[1])
                  /\ skipped' = Append(skipped, frames[1])
                  /\ frames' = Tail(frames)
                  /\ rendered' = rendered
                  /\ job' = job
             ELSE /\ log'[Len(log')].ev # "skip"
                  /\ skipped' = skipped
                  /\ frames' = frames]_vars

\* an interactive run with overwrite disabled that skipped a frame whose
\* file was on disk and rendered another
C23_Witness ==
    /\ ~render_silent /\ phase = "finished" /\ ~use_overwrite
    /\ skipped # <<>> /\ rendered # <<>>
    /\ Range(skipped) \subseteq files0

\* a step in which a frame completed or was skipped in an interactive run
Advances ==
    /\ phase = "modal"
    /\ Len(log') = Len(log) + 1
    /\ log'[Len(log')].ev \in {"post", "skip"}

\* C24: with timer ticks arriving and every renderer invocation ending in a
\* completion or a cancel, an interactive run reaches its finished state
\* (a renderer call that raises signals neither and is left aside), and
\* every completion and every skip makes the queue one shorter.
C24_InteractiveTerminates ==
    /\ (phase = "modal") ~> (phase = "finished" \/ phase = "raised")
    /\ [][Advances => Len(frames') = Len(frames) - 1]_vars

\* an interactive run that rendered two frames and finished on the empty queue
C24_Witness ==
    /\ ~render_silent /\ phase = "finished" /\ ~stop
    /\ frames = <<>> /\ Len(rendered) >= 2

\* frame_repath has just written the paths of a frame: the last thing that
\* happened is start_render invoking the renderer for it or skipping it
Repathed ==
    /\ phase \in {"modal", "silent"}
    /\ log # <<>>
    /\ log[Len(log)].ev \in {"invoke", "skip"}

\* the file names written for frame e were resolved at frame e
NamesAtFrame(e) ==
    /\ filepath.fi = FrameCtx(e)
    /\ \A n \in DOMAIN output_nodes :
           IF output_nodes[n].has_slots
           THEN slot_path[n].fi = FrameCtx(e)
           ELSE base_path[n].fi = FrameCtx(e) /\ base_path[n].fo = FrameCtx(e)

\* the folders written for frame e were resolved at frame e
FoldersAtFrame(e) ==
    /\ folder_glob => filepath.fo = FrameCtx(e)
    /\ \A n \in DOMAIN output_nodes : base_path[n].fo = FrameCtx(e)

\* C25 (as claimed): every component of the paths written for a frame (main
\* folder and file name, each node's folder or base path and file name) was
\* resolved at that frame, none at the run's start or at an earlier frame.
C25_ResolvedPerFrame ==
    Repathed => NamesAtFrame(log[Len(log)].f) /\ FoldersAtFrame(log[Len(log)].f)

\* C25 for the file names and for the nodes without file slots
C25_NamesResolvedPerFrame == Repathed => NamesAtFrame(log[Len(log)].f)

\* C25 for the main folder when it holds no global key, first frame aside
C25_MainFolderAtStart ==
    (Repathed /\ folder_glob) => filepath.fo = StartCtx

\* the interactive run is under way or has just ended
Interactive == ~render_silent /\ phase \in {"modal", "finished"}

\* C26 (as claimed): in an interactive run the pending queue, the rendered
\* list and the skipped list together hold exactly the frames of the run, a
\* skipped frame is not pending, and a frame both rendered and pending is the
\* head of the queue.
C26_ListsCoverFrameSet ==
    Interactive =>
        /\ Range(frames) \cup Range(rendered) \cup Range(skipped) = Range(frames0)
        /\ Range(skipped) \cap Range(frames) = {}
        /\ \A e \in Range(rendered) \cap Range(frames) :
               \A i \in 1..Len(frames) : frames[i] = e => i = 1

\* C26 on queues without a repeated entry: the same statement
C26_ListsCoverFrameSetDistinct == NoDup(frames0) => C26_ListsCoverFrameSet

\* a frame that is rendered and pending: the frame in flight
C26_Witness ==
    /\ Interactive /\ NoDup(frames0)
    /\ frames # <<>> /\ frames[1] \in Range(rendered)
    /\ skipped # <<>> /\ Len(frames) >= 2

\* C27 (as claimed): no step of a run changes the base path or the slot path
\* of a node that is not among the nodes of the run's scene, whatever an
\* earlier run recorded for it.
C27_OnlyOwnNodes ==
    [][runs' = runs =>
          \A n \in Nodes \ scene_nodes :
              base_path'[n] = base_path[n] /\ slot_path'[n] = slot_path[n]]_vars

\* C27 for the first run of a session: the nodes outside its scene keep
\* their paths
C27_OnlyOwnNodesFirstRun ==
    [][(runs' = runs /\ runs = 0) =>
          \A n \in Nodes \ scene_nodes :
              base_path'[n] = base_path[n] /\ slot_path'[n] = slot_path[n]]_vars

\* C27 for the nodes no run has recorded
C27_UnrecordedNodesKept ==
    [][runs' = runs =>
          \A n \in Nodes \ (DOMAIN output_nodes') :
              base_path'[n] = base_path[n] /\ slot_path'[n] = slot_path[n]]_vars

\* C27, its last part: a base path the user typed between two runs into a
\* node outside the later run's scene is still there during and after it
C27_EditedPathKept ==
    \A n \in Nodes \ scene_nodes :
        orig.base_path[n] = EditedPath(n) => base_path[n].t = "edited"

\* a later run in a scene without a node an earlier run recorded has ended
C27_LaterRunEnded ==
    /\ runs >= 1 /\ phase = "finished" /\ rendered # <<>>
    /\ (DOMAIN output_nodes) \ scene_nodes # {}

\* the timer and the three callbacks are registered only while an interactive
\* run is under way
RegisteredOnlyInRun ==
    /\ handlers \in {{}, Handlers}
    /\ handlers # {} => (phase = "modal" /\ ~render_silent)

\* a step that changes the registrations is the start of an interactive run,
\* registering all four, or its end on the empty queue or on a cancel,
\* removing all four
RegistrationSteps ==
    handlers' # handlers =>
        \/ /\ phase = "idle" /\ phase' = "modal" /\ ~render_silent'
           /\ handlers = {} /\ handlers' = Handlers
        \/ /\ phase = "modal" /\ phase' = "finished"
           /\ (frames = <<>> \/ stop)
           /\ handlers = Handlers /\ handlers' = {}

\* once the run has ended the queue and the result lists stay as they are
EndedRunKeepsLists ==
    (phase \in {"finished", "cancelled", "raised"} /\ runs' = runs) => UNCHANGED lists

\* C28 (as claimed): the timer and the callbacks are registered only by the
\* start of an interactive run, removed once when it ends, never registered
\* by a silent run or by a run that aborts at start, and a run that has ended
\* leaves none of them registered and its lists unchanged.
C28_HandlersLifecycle ==
    /\ []RegisteredOnlyInRun
    /\ [][RegistrationSteps /\ EndedRunKeepsLists]_vars

\* C28 for the runs the renderer did not fail in
C28_HandlersLifecycleNoFailure ==
    /\ [](~HasEv("raise") => RegisteredOnlyInRun)
    /\ [][RegistrationSteps /\ EndedRunKeepsLists]_vars

\* an interactive run ended by a cancel has removed its registrations
C28_Witness ==
    /\ ~render_silent /\ phase = "finished" /\ HasEv("cancel") /\ handlers = {}

Ascending(s) == \A i \in 1..(Len(s) - 1) : s[i] < s[i + 1]

Marked(items) == {i \in 1..Len(items) : items[i].excl}

\* the values the exclude-marked items name
MarkedValues(items) == UNION {ItemValues(items[i]) : i \in Marked(items)}

\* C12: in isolate mode a marker excludes only what its own item names: a
\* value of an item without a marker that no exclude-marked item names is in
\* the result, wherever the markers stand; "^1,2,3" gives [2, 3].
C12_IsolateMarkerOwnItem ==
    (p_out.status # "idle" /\ p_isolate /\ p_items # <<>>) =>
        /\ p_out.status = "ok"
        /\ \A i \in 1..Len(p_items) :
               ~p_items[i].excl =>
                   (ItemValues(p_items[i]) \ MarkedValues(p_items))
                       \subseteq Range(p_out.frames)
        /\ p_items = <<Excl(Single(Fx(1))), Single(Fx(2)), Single(Fx(3))>> =>
               (p_out.frames = <<Fx(2), Fx(3)>> /\ p_out.ints)

\* isolate mode, parsed: an item without a marker stands after a marked item
\* that names none of its values
C12_Witness ==
    /\ p_out.status = "ok" /\ p_isolate
    /\ \E i, j \in 1..Len(p_items) :
           /\ j < i /\ p_items[j].excl /\ ~p_items[i].excl
           /\ ItemValues(p_items[i]) \cap MarkedValues(p_items) = {}
           /\ ItemValues(p_items[i]) \subseteq Range(p_out.frames)

\* the positions of the items that name the value v
Naming(items, v) == {i \in 1..Len(items) : v \in ItemValues(items[i])}

\* the last of them
LastNaming(items, v) ==
    CHOOSE i \in Naming(items, v) : \A j \in Naming(items, v) : j <= i

\* C30 (as claimed): in isolate mode a value named by more than one item is
\* in the result when the last item naming it has no marker and absent when
\* that item is exclude-marked.
C30_IsolateLastItemWins ==
    (p_out.status = "ok" /\ p_isolate) =>
        \A v \in UNION {ItemValues(p_items[i]) : i \in 1..Len(p_items)} :
            Cardinality(Naming(p_items, v)) > 1 =>
                (v \in Range(p_out.frames) <=> ~p_items[LastNaming(p_items, v)].excl)

\* C30, its first half: the value is in the result when the last item naming
\* it is a single value or a range without a marker
C30_IsolateLastPositiveWins ==
    (p_out.status = "ok" /\ p_isolate) =>
        \A v \in UNION {ItemValues(p_items[i]) : i \in 1..Len(p_items)} :
            (Cardinality(Naming(p_items, v)) > 1
                /\ ~p_items[LastNaming(p_items, v)].excl) =>
                    v \in Range(p_out.frames)

\* C14: in both modes the returned frame list is strictly ascending, so it
\* holds no value twice, however often and in whatever order the items name
\* a value.
C14_StrictlyAscending == p_out.status = "ok" => Ascending(p_out.frames)

\* parsed: a value is named twice, and a larger value before a smaller one
C14_Witness ==
    /\ p_out.status = "ok" /\ Len(p_out.frames) >= 2
    /\ \E i, j \in 1..Len(p_items) :
           /\ i < j /\ ~p_items[i].excl /\ ~p_items[j].excl
           /\ p_items[i].kind = "single" /\ p_items[j].kind = "single"
           /\ p_items[i].a > p_items[j].a
           /\ {p_items[i].a, p_items[j].a} \subseteq Range(p_out.frames)
    /\ \E i, j \in 1..Len(p_items) :
           /\ i < j /\ ~p_items[i].excl /\ ~p_items[j].excl
           /\ ItemValues(p_items[i]) \cap ItemValues(p_items[j]) \cap Range(p_out.frames) # {}

\* C15: in global mode no value that an exclude-marked item (number or
\* range) names is in the result, whether the marked item stands before or
\* after the items that name the value; "1-3,^2" gives [1, 3].
C15_GlobalExcludedAbsent ==
    (p_out.status # "idle" /\ ~p_isolate /\ p_items # <<>>) =>
        /\ p_out.status = "ok"
        /\ MarkedValues(p_items) \cap Range(p_out.frames) = {}
        /\ p_items = <<Rng(Fx(1), Fx(3)), Excl(Single(Fx(2)))>> =>
               p_out.frames = <<Fx(1), Fx(3)>>

\* global mode, parsed: a marked item stands first and a later item without
\* a marker names one of its values and a value that stays in the result
C15_Witness ==
    /\ p_out.status = "ok" /\ ~p_isolate /\ Len(p_items) >= 2
    /\ p_items[1].excl /\ ~p_items[2].excl
    /\ ItemValues(p_items[1]) \cap ItemValues(p_items[2]) # {}
    /\ ItemValues(p_items[2]) \cap Range(p_out.frames) # {}
    /\ \E i \in 2..Len(p_items) : p_items[i].excl /\ p_items[i].kind = "range"

\* ------------------------------------------ the parser on a written text
MaxEnd == 2        \* written range ends are the whole numbers -MaxEnd..MaxEnd
MaxStep == 2       \* written and default increments are at most MaxStep

\* the text of a range item written A-B, or A-Bxs when inc = <<s>>
RangeText(A, B, inc) ==
    str_int(A) \o <<Ch("-")>> \o str_int(B)
        \o (IF inc = <<>> THEN <<>> ELSE <<Ch("x")>> \o str_int(inc[1]))

\* a range item on its own, its increment omitted or any of -1..MaxStep
RangeTexts ==
    {RangeText(A, B, inc) : A \in -MaxEnd..MaxEnd, B \in -MaxEnd..MaxEnd,
                            inc \in {<<>>} \cup {<<k>> : k \in -1..MaxStep}}

\* a number followed by a range item whose increment is zero or negative
BadStepTexts ==
    {str_int(v) \o <<Ch(",")>> \o RangeText(1, 3, <<k>>) : v \in 1..MaxEnd, k \in -1..0}

\* an exclude-marked number followed by a range item
AfterExcludeTexts ==
    {<<Ch("^")>> \o str_int(v) \o <<Ch(",")>> \o RangeText(A, B, <<>>) :
        v \in 1..MaxEnd, A \in 1..MaxEnd, B \in 1..MaxEnd}

TextInputs == RangeTexts \cup BadStepTexts \cup AfterExcludeTexts

TextInit ==
    /\ HostIdle
    /\ OperatorInit
    /\ p_text \in TextInputs
    /\ p_step \in {Fx(k) : k \in 1..MaxStep}
    /\ p_isolate \in BOOLEAN
    /\ p_items = <<>>
    /\ p_out = [status |-> "idle", frames |-> <<>>, ints |-> TRUE]
    /\ u_in = <<>>
    /\ u_out = UtilsIdle
    /\ ToolsIdle

\* filter_frames(frame_input, increment, filter_individual) on a text:
\* findall (line 100), then the items
ParseText ==
    /\ p_out.status = "idle"
    /\ p_items' = matches(p_text)
    /\ p_out' = filter_frames(matches(p_text), p_step, p_isolate)
    /\ UNCHANGED <<host, files, paths, handlers, job, phase, lists, stop,
                   rendering, setup, idx, log, p_isolate, p_text, p_step,
                   u_in, u_out, tools>>

TextNext == ParseText

SpecText == TextInit /\ [][TextNext]_vars

Min(a, b) == IF a <= b THEN a ELSE b

Max(a, b) == IF a <= b THEN b ELSE a

\* { min(A,B) + k*s : k >= 0 and min(A,B) + k*s <= max(A,B) }, ascending
Stepped(A, B, s) ==
    SortedSeq({Fx(Min(A, B) + k * s) : k \in 0..((Max(A, B) - Min(A, B)) \div s)})

\* the increment a written item is read with: its own, or the default
StepOf(inc) == IF inc = <<>> THEN p_step \div Scale ELSE inc[1]

\* C11 (as claimed): a range item written A-B or A-Bxs, A and B any whole
\* numbers and the increment s (written or default) positive, parses to
\* exactly the values min(A,B) + k*s up to max(A,B).
C11_RangeExpansion ==
    \A A, B \in -MaxEnd..MaxEnd, inc \in {<<>>} \cup {<<k>> : k \in 1..MaxStep} :
        (p_out.status # "idle" /\ p_text = RangeText(A, B, inc)) =>
            /\ p_out.status = "ok"
            /\ p_out.frames = Stepped(A, B, StepOf(inc))

\* C11 for the items whose second number is written without a sign or whose
\* increment is omitted
C11_RangeExpansionUnsignedEnd ==
    \A A, B \in -MaxEnd..MaxEnd, inc \in {<<>>} \cup {<<k>> : k \in 1..MaxStep} :
        (p_out.status # "idle" /\ p_text = RangeText(A, B, inc)
            /\ (B >= 0 \/ inc = <<>>)) =>
                /\ p_out.status = "ok"
                /\ p_out.frames = Stepped(A, B, StepOf(inc))

\* C16 (as claimed): parse never raises, and the numbers written next to a
\* range item with a zero or negative increment are still in the result.
C16_NeverRaises ==
    /\ p_out.status # "raise"
    /\ \A v \in 1..MaxEnd, k \in -1..0 :
           (p_out.status # "idle"
               /\ p_text = str_int(v) \o <<Ch(",")>> \o RangeText(1, 3, <<k>>)) =>
                   Fx(v) \in Range(p_out.frames)

\* C16 for the texts in which every increment that is read is positive
C16_NeverRaisesPositiveSteps ==
    (\A i \in 1..Len(p_items) :
         p_items[i].inc = <<>> \/ p_items[i].inc[1] > 0) => p_out.status # "raise"

\* C13 (as claimed): in isolate mode every value of a range item without a
\* marker that follows an exclude-marked item is in the result.
C13_LaterRangesWin ==
    \A v \in 1..MaxEnd, A \in 1..MaxEnd, B \in 1..MaxEnd :
        (p_out.status # "idle" /\ p_isolate
            /\ p_text = <<Ch("^")>> \o str_int(v) \o <<Ch(",")>> \o RangeText(A, B, <<>>)) =>
                /\ p_out.status = "ok"
                /\ Range(Stepped(A, B, p_step \div Scale)) \subseteq Range(p_out.frames)

\* C13 for the range items whose two numbers differ
C13_LaterRangesWinProper ==
    \A v \in 1..MaxEnd, A \in 1..MaxEnd, B \in 1..MaxEnd :
        (p_out.status # "idle" /\ p_isolate /\ A # B
            /\ p_text = <<Ch("^")>> \o str_int(v) \o <<Ch(",")>> \o RangeText(A, B, <<>>)) =>
                /\ p_out.status = "ok"
                /\ Range(Stepped(A, B, p_step \div Scale)) \subseteq Range(p_out.frames)


\* ------------------------- rangify_frames and missing_frames on their own
MaxRun == 3        \* the lists hold whole numbers of -MaxRun..MaxRun

\* the strictly increasing lists of whole numbers
IncreasingLists == {SortedSeq(S) : S \in SUBSET (-MaxRun..MaxRun)}

UtilsInit ==
    /\ HostIdle
    /\ OperatorInit
    /\ u_in \in IncreasingLists
    /\ u_out = UtilsIdle
    /\ p_text = <<>>
    /\ p_step = scene_frame_step
    /\ p_isolate \in BOOLEAN
    /\ p_items = <<>>
    /\ p_out = [status |-> "idle", frames |-> <<>>, ints |-> TRUE]
    /\ ToolsIdle

\* rangify_frames(frames): the text it returns
Rangify ==
    /\ ~u_out.rangified
    /\ p_text' = rangify_frames(u_in)
    /\ u_out' = [u_out EXCEPT !.rangified = TRUE]
    /\ UNCHANGED <<host, files, paths, handlers, job, phase, lists, stop,
                   rendering, setup, idx, log, p_items, p_isolate, p_out,
                   p_step, u_in, tools>>

\* filter_frames on the text rangify_frames returned
ParseRangified ==
    /\ u_out.rangified
    /\ ParseText

\* missing_frames(frames) on a list that is not empty
Missing ==
    /\ ~u_out.missing
    /\ u_in # <<>>
    /\ u_out' = [u_out EXCEPT !.missing = TRUE, !.frames = missing_frames(u_in)]
    /\ UNCHANGED <<host, files, paths, handlers, job, phase, lists, stop,
                   rendering, setup, idx, log, p_items, p_isolate, p_out,
                   p_text, p_step, u_in, tools>>

UtilsNext == Rangify \/ ParseRangified \/ Missing

SpecUtils == UtilsInit /\ [][UtilsNext]_vars

\* the whole numbers of a returned frame list
Whole(fs) == [i \in 1..Len(fs) |-> fs[i] \div Scale]

\* C18 (as claimed): for every strictly increasing list xs of whole numbers
\* parse(compact(xs)) with default step 1 returns exactly xs.
C18_RoundTrip ==
    (u_out.rangified /\ p_out.status # "idle") =>
        /\ p_out.status = "ok"
        /\ p_out.ints
        /\ Whole(p_out.frames) = u_in

\* C18 (amended): the same for every list that is not empty; for the empty
\* list compact gives the empty text and parse returns the 'no frames'
\* outcome and no frame set.
C18_RoundTripNonEmpty ==
    (u_out.rangified /\ p_out.status # "idle") =>
        IF u_in = <<>>
        THEN p_out.status = "none"
        ELSE /\ p_out.status = "ok"
             /\ p_out.ints
             /\ Whole(p_out.frames) = u_in

\* a list with negative numbers, a run and a lone number went through
\* compact and parse
C18_Witness ==
    /\ u_out.rangified /\ p_out.status = "ok"
    /\ Len(u_in) >= 3 /\ u_in[1] < -1 /\ u_in[2] = u_in[1] + 1
    /\ u_in[Len(u_in)] > u_in[Len(u_in) - 1] + 1

\* the first numbers of the maximal runs of consecutive values of a list
RunStarts(xs) == {x \in Range(xs) : (x - 1) \notin Range(xs)}

\* the last number of the maximal run that starts at a
RunLast(xs, a) ==
    CHOOSE b \in Range(xs) :
        /\ b >= a
        /\ \A n \in a..b : n \in Range(xs)
        /\ (b + 1) \notin Range(xs)

\* the token of the run that starts at a: the number, or first-last
RunToken(xs, a) ==
    LET b == RunLast(xs, a)
    IN  IF b = a THEN str_int(a) ELSE str_int(a) \o <<Ch("-")>> \o str_int(b)

RECURSIVE JoinRuns(_, _)
\* the tokens of the runs that start in S, ascending, separated by commas
JoinRuns(xs, S) ==
    IF S = {} THEN <<>>
    ELSE LET a == CHOOSE x \in S : \A y \in S : x <= y
         IN  RunToken(xs, a)
                 \o (IF S = {a} THEN <<>> ELSE <<Ch(",")>> \o JoinRuns(xs, S \ {a}))

\* C19: for a strictly increasing list compact gives one token for every
\* maximal run of consecutive values, ascending and separated by commas, a
\* run of one value as the number and a longer run as first-last; the empty
\* list gives the empty text.
C19_CompactTokens ==
    u_out.rangified => p_text = JoinRuns(u_in, RunStarts(u_in))

\* compacted: a list with a run of at least two values and a lone value
C19_Witness ==
    /\ u_out.rangified
    /\ \E a \in RunStarts(u_in) : RunLast(u_in, a) > a
    /\ \E a \in RunStarts(u_in) : RunLast(u_in, a) = a
    /\ p_text # <<>>

\* C20: for a sorted list that is not empty missing returns, ascending,
\* exactly the whole numbers strictly between the smallest and the largest
\* listed number that are not listed.
C20_MissingInsideSpan ==
    u_out.missing =>
        /\ Ascending(u_out.frames)
        /\ Range(u_out.frames) =
               {n \in -MaxRun..MaxRun :
                   /\ u_in[1] < n /\ n < u_in[Len(u_in)]
                   /\ n \notin Range(u_in)}

\* missing was called on a list with a gap and returned a number
C20_Witness ==
    /\ u_out.missing /\ u_out.frames # <<>>
    /\ Len(u_in) >= 3


\* ------------------------------- the file names of a sub-frame run
\* self.digits (default 4)
Digits == 4

\* the decimals a frame value can have, Scale = 10^Decimals
Decimals == 5

RECURSIVE Pow10(_)
Pow10(k) == IF k = 0 THEN 1 ELSE 10 * Pow10(k - 1)

RECURSIVE TrailingZeros(_)
\* how many zeros end the digits of n > 0
TrailingZeros(n) == IF n % 10 # 0 THEN 0 ELSE 1 + TrailingZeros(n \div 10)

\* repr and str of a float write a point unless the float is not 0 and below
\* 0.0001, which they write with an exponent ("1e-05")
has_point(v) == v = 0 \/ Abs(v) * 10 >= Scale \div 1000

\* len(str(x[1]).split('.')[1]) (line 3901) for a sub-frame part with a
\* point: "0.0" has one digit after it, "0.25" two
frac_len(sub) == IF sub = 0 THEN 1 ELSE Decimals - TrailingZeros(sub)

\* max(map(lambda x: len(str(x[1]).split('.')[1]), self._frames))
dec_of(queue) ==
    LET lens == {frac_len(queue[i][2]) : i \in 1..Len(queue)}
    IN  CHOOSE m \in lens : \A k \in lens : k <= m

\* the numbers format_subframe (lines 3731-3740) writes into a name: frame[0]
\* padded with zeros to self.digits, then the dec digits that follow the point
\* of "{sf:.{dec}f}" (sub has at most dec digits after the point when dec is
\* at least its frac_len)
format_subframe(e, dec) ==
    [main |-> e[1], width |-> Digits,
     sub |-> e[2] \div Pow10(Decimals - dec), subwidth |-> dec]

\* execute, lines 3898-3902, then format_subframe for every frame of the
\* queue.  subframes unpacks repr(frame).split('.') into two names and line
\* 3901 takes element 1 of str(x[1]).split('.'): both raise when the text
\* has no point.
format_run(vals) ==
    LET q == subframes(vals)
    IN  IF \E i \in 1..Len(vals) : ~has_point(vals[i]) \/ ~has_point(q[i][2])
        THEN [status |-> "raise", dec |-> 0, names |-> <<>>]
        ELSE [status |-> "ok", dec |-> dec_of(q),
              names |-> [i \in 1..Len(q) |-> format_subframe(q[i], dec_of(q))]]

\* frame values: whole, with one, two and five decimals
FormatValues ==
    {Fx(1), Fx(1) + Scale \div 4, Fx(2) + Half, Fx(3) + Scale \div 10,
     Fx(1) + 1, Fx(2) + 12345, Fx(2), -Half}

\* what filter_frames returns in sub-frame mode: ascending floats, one of
\* them at least not whole
FormatInputs ==
    {SortedSeq(S) : S \in {T \in SUBSET FormatValues : \E v \in T : v % Scale # 0}}

FormatInit ==
    /\ HostIdle
    /\ OperatorInit
    /\ p_items = <<>>
    /\ p_isolate = FALSE
    /\ p_out = [status |-> "idle", frames |-> <<>>, ints |-> TRUE]
    /\ p_text = <<>>
    /\ p_step = scene_frame_step
    /\ u_in = <<>>
    /\ u_out = UtilsIdle
    /\ f_in \in FormatInputs
    /\ f_out = [status |-> "idle", dec |-> 0, names |-> <<>>]
    /\ s_range = <<1, 1>>
    /\ s_disk = {}
    /\ g_out = "idle"

Format ==
    /\ f_out.status = "idle"
    /\ f_out' = format_run(f_in)
    /\ UNCHANGED <<host, files, paths, handlers, job, phase, lists, stop,
                   rendering, setup, idx, log, p_items, p_isolate, p_out,
                   p_text, p_step, u_in, u_out, f_in, s_range, s_disk, g_out>>

FormatNext == Format

SpecFormat == FormatInit /\ [][FormatNext]_vars

\* the fewest decimals that write the fractional part of v exactly (one for
\* a whole value)
NeededDecimals(v) ==
    CHOOSE k \in 1..Decimals :
        /\ (Abs(v) % Scale) % Pow10(Decimals - k) = 0
        /\ \A j \in 1..(k - 1) : (Abs(v) % Scale) % Pow10(Decimals - j) # 0

\* the width of the claim: the most fractional digits over the values
WidthOf(vals) ==
    CHOOSE m \in 1..Decimals :
        /\ \E i \in 1..Len(vals) : NeededDecimals(vals[i]) = m
        /\ \A i \in 1..Len(vals) : NeededDecimals(vals[i]) <= m

UniformNames ==
    /\ f_out.status = "ok"
    /\ f_out.dec = WidthOf(f_in)
    /\ Len(f_out.names) = Len(f_in)
    /\ \A i \in 1..Len(f_in) :
           /\ f_out.names[i].width = Digits
           /\ f_out.names[i].subwidth = WidthOf(f_in)
           /\ f_out.names[i].sub * Pow10(Decimals - WidthOf(f_in)) = Abs(f_in[i]) % Scale

\* C21 (as claimed): in sub-frame mode the suffix width is the most
\* fractional digits over the queued values, and every file name of the run
\* is the whole part padded to the configured width followed by the
\* fractional digits in exactly that width; [1.0, 1.25, 2.5] gives width 2.
C21_UniformSuffixWidth == f_out.status # "idle" => UniformNames

\* C21 for the runs in which no value has a fractional part below 0.0001
C21_UniformSuffixWidthPointed ==
    (f_out.status # "idle" /\ \A i \in 1..Len(f_in) : has_point(Abs(f_in[i]) % Scale))
        => UniformNames

\* C21, the example
C21_Example ==
    (f_out.status # "idle" /\ f_in = <<Fx(1), Fx(1) + Scale \div 4, Fx(2) + Half>>) =>
        /\ f_out.dec = 2
        /\ f_out.names = <<[main |-> 1, width |-> Digits, sub |-> 0, subwidth |-> 2],
                            [main |-> 1, width |-> Digits, sub |-> 25, subwidth |-> 2],
                            [main |-> 2, width |-> Digits, sub |-> 50, subwidth |-> 2]>>


\* ------------------------------------------------------ loom.guess_frames
\* lum.frame_input after lines 1030-1032: "start-end", with "x" and the
\* scene's frame step appended when the step is not 1
timeline_text ==
    RangeText(s_range[1], s_range[2],
              IF p_step = Fx(1) THEN <<>> ELSE <<p_step \div Scale>>)

\* the test on the scan being one file already
scan_usable_one_file(disk) == Cardinality(disk) > 0

\* "if not len(image_sequence) > 1" (line 1078) read the other way round
scan_usable(disk) == Cardinality(disk) > 1

\* LOOM_OT_guess_frames.missing_frames(timeline_frames, rendered_frames)
\* (lines 1017-1018) on range(frame_start, frame_end + 1)
timeline_missing == SortedSeq({n \in s_range[1]..s_range[2] : n \notin s_disk})

GuessInit ==
    /\ use_overwrite = FALSE
    /\ files = {}
    /\ folder_glob = FALSE
    /\ folder_ok \in BOOLEAN      \* os.path.exists(basedir)
    /\ scene_nodes = Nodes
    /\ runs = 0
    /\ filepath = MainTemplate
    /\ base_path = [n \in Nodes |-> BaseTemplate(n)]
    /\ slot_path = [n \in Nodes |-> SlotTemplate(n)]
    /\ handlers = {}
    /\ job = "none"
    /\ OperatorInit
    /\ p_items = <<>>
    /\ p_isolate \in BOOLEAN
    /\ p_out = [status |-> "idle", frames |-> <<>>, ints |-> TRUE]
    /\ p_text = <<>>
    /\ p_step \in {Fx(k) : k \in 1..MaxStep}
    /\ u_in = <<>>
    /\ u_out = UtilsIdle
    /\ f_in = <<>>
    /\ f_out = [status |-> "idle", dec |-> 0, names |-> <<>>]
    /\ s_range \in {se \in {-1, 1} \X (-1..MaxRun) : se[1] <= se[2]}
    /\ s_disk \in SUBSET (0..MaxRun)
    /\ g_out = "idle"

\* LOOM_OT_guess_frames.execute (lines 1025-1101).  g_out: "range" when only
\* the timeline range was asked for, "cancelled", "finished".
GuessFrames ==
    /\ g_out = "idle"
    /\ \E detect_missing_frames \in BOOLEAN :
          IF ~detect_missing_frames
          THEN /\ g_out' = "range"
               /\ p_text' = timeline_text
               /\ UNCHANGED u_out
          ELSE IF ~folder_ok \/ ~scan_usable(s_disk)
          THEN /\ g_out' = "cancelled"
               /\ p_text' = timeline_text
               /\ UNCHANGED u_out
          ELSE /\ g_out' = "finished"
               /\ u_out' = [u_out EXCEPT !.missing = TRUE, !.frames = timeline_missing]
               /\ p_text' = IF timeline_missing # <<>>
                             THEN rangify_frames(timeline_missing)
                             ELSE timeline_text
    /\ UNCHANGED <<host, files, paths, handlers, job, phase, lists, stop,
                   rendering, setup, idx, log, p_items, p_isolate, p_out,
                   p_step, u_in, f_in, f_out, s_range, s_disk>>

\* render.image_sequence reads the frame input: filter_frames(self.frames,
\* scn.frame_step, self.isolate_numbers) (line 3855)
ParseGuessed ==
    /\ g_out # "idle"
    /\ ParseText

GuessNext == GuessFrames \/ ParseGuessed

SpecGuess == GuessInit /\ [][GuessNext]_vars

\* C22: when the scan matches fewer than two files the operation ends
\* without computing missing frames and the frame input is the default
\* range: start-end, with the scene's step appended when it is not 1.
C22_NoSequenceDefaultRange ==
    (g_out \in {"cancelled", "finished"} /\ Cardinality(s_disk) < 2) =>
        /\ g_out = "cancelled"
        /\ ~u_out.missing
        /\ p_text = str_int(s_range[1]) \o <<Ch("-")>> \o str_int(s_range[2])
                       \o (IF p_step = Fx(1) THEN <<>>
                           ELSE <<Ch("x"), Num(p_step \div Scale)>>)

\* missing frames were asked for, the folder exists, one file matched, the
\* step is not 1
C22_Witness ==
    /\ g_out = "cancelled" /\ folder_ok /\ Cardinality(s_disk) = 1
    /\ p_step # Fx(1) /\ s_range[1] < s_range[2]

\* C29 (as claimed): when the compacted missing frames were written into the
\* frame input, parsing it with the scene's frame step as default step
\* gives exactly the missing frames, whatever the step.
C29_MissingRoundTrip ==
    (g_out = "finished" /\ u_out.frames # <<>> /\ p_out.status # "idle") =>
        /\ p_out.status = "ok"
        /\ Whole(p_out.frames) = u_out.frames

\* C29 for a scene whose frame step is 1
C29_MissingRoundTripStepOne ==
    p_step = Fx(1) => C29_MissingRoundTrip

====
